---- MODULE Spec2Model ----
(***************************************************************************)
(* Model of user-service/app.py: the Flask status service and the demo    *)
(* pipeline orchestrator trigger().                                        *)
(*                                                                         *)
(* A request-handling thread takes one request at a time.  Every external *)
(* HTTP call and every spawned process is an input whose outcome is drawn  *)
(* from a small set at the step that performs it.                          *)
(***************************************************************************)
EXTENDS Integers, Sequences, FiniteSets, TLC

VARIABLES env, fs, workers, run

vars == <<env, fs, workers, run>>

(* ------------------------------ bounds -------------------------------- *)

\* handler threads of the hosting server (one request each at a time)
MaxWorkers == 2
\* names mkdtemp can hand out
MaxTmp == 2
\* largest wall-clock duration of a run, in seconds
MaxElapsed == 1

Threads == 1..MaxWorkers
TmpNames == 1..MaxTmp

(* --------------------------- ambient config --------------------------- *)

\* os.environ: the set of variables that are set to a non-empty value
TriggerEnvVars ==
    {"GITHUB_TOKEN", "JENKINS_URL", "JENKINS_JOB",
     "DOCKERHUB_USER", "DOCKERHUB_PASS", "DOCKERHUB_REPO"}

ProbeEnvVars ==
    {"GITHUB_REPO", "GITHUB_TOKEN", "JENKINS_URL", "JENKINS_JOB",
     "DOCKERHUB_REPO", "K8S_DEPLOYMENT", "PROMETHEUS_URL"}

\* os.environ.get(name): the value, or None
None == "None"
Getenv(e, name) == IF name \in e THEN "$" \o name ELSE None

\* Python truthiness of an os.environ.get result
Truthy(v) == v # None

(* ------------------------------ values -------------------------------- *)

\* a repo "owner/name" is the sequence of its '/'-separated parts;
\* the empty sequence is the missing (or empty) repo
NoRepo == <<>>

\* repo.split('/')[-1]
Basename(repo) == repo[Len(repo)]

Absent == "<absent>"

Stage(id, name, status, detail) ==
    [id |-> id, name |-> name, status |-> status, detail |-> detail, log |-> <<>>]

\* stages[-1].update({...}) / stages[-1][k] = v
UpdateLast(stages, status, detail, log) ==
    [stages EXCEPT ![Len(stages)] =
        [@ EXCEPT !.status = status, !.detail = detail, !.log = log]]

SetLastLog(stages, log) ==
    [stages EXCEPT ![Len(stages)] = [@ EXCEPT !.log = log]]

SetLastStatus(stages, status) ==
    [stages EXCEPT ![Len(stages)] = [@ EXCEPT !.status = status]]

(* --------------------------- Command Runner --------------------------- *)

\* what a spawned process can do: exit with a code and output text,
\* outlive the timeout, or fail to start
ExitOk == [kind |-> "exit", rc |-> 0, out |-> "ok"]
ExitFail == [kind |-> "exit", rc |-> 1, out |-> "error"]
TimedOut == [kind |-> "timeout", rc |-> 0, out |-> ""]
SpawnError == [kind |-> "oserror", rc |-> 0, out |-> ""]
ProcOutcomes == {ExitOk, ExitFail, TimedOut, SpawnError}

\* the texts git clone prints on failure that trigger() looks for
CloneFailTexts ==
    {"repository not found", "could not resolve host",
     "authentication failed", "branch not found", "fatal"}
CloneOutcomes ==
    {ExitOk, TimedOut, SpawnError}
    \cup {[kind |-> "exit", rc |-> 128, out |-> x] : x \in CloneFailTexts}

\* _run_cmd: (returncode, stdout+stderr); -1 on timeout or any exception
_run_cmd(o) ==
    CASE o.kind = "exit" -> [rc |-> o.rc, out |-> o.out]
      [] o.kind = "timeout" -> [rc |-> -1, out |-> "command timed out"]
      [] OTHER -> [rc |-> -1, out |-> "error running command"]

(* ------------------------------ responses ----------------------------- *)

NoResp == [code |-> 0, kind |-> "none", stages |-> <<>>, error |-> <<>>,
           metrics |-> <<>>, hasMetrics |-> FALSE]

\* jsonify({'pipelineStages': stages[, 'metrics': m][, 'error': e]}), code
StageDoc(code, stages, hasMetrics, metrics, error) ==
    [code |-> code, kind |-> "stages", stages |-> stages, error |-> error,
     metrics |-> metrics, hasMetrics |-> hasMetrics]

\* any other response body
OtherDoc(code, kind) ==
    [code |-> code, kind |-> kind, stages |-> <<>>, error |-> <<>>,
     metrics |-> <<>>, hasMetrics |-> FALSE]

(* ------------------------------ threads ------------------------------- *)

Unbound == <<"<unbound>">>

IdleRun ==
    [pc |-> "idle", req |-> "none", repo |-> NoRepo, branch |-> "main",
     tmp |-> 0, stages |-> <<>>, spawned |-> <<>>, http |-> <<>>,
     sha |-> Unbound, tag |-> Unbound, full_tag |-> Unbound,
     pushed |-> FALSE, exc |-> FALSE, resp |-> NoResp,
     test_rc |-> <<>>, github_success |-> "unset", jenkins_success |-> "unset",
     rmtree |-> "not called", probes |-> <<>>, ret |-> <<>>, head |-> "not sent"]

Free(t) == t <= workers /\ run[t].pc = "idle"

(* ------------------------------- routes ------------------------------- *)

\* the URL map the @app.route decorators build: each decorator binds the
\* function defined right below it
url_map ==
    {[methods |-> {"GET"}, rule |-> "/", endpoint |-> "home"],
     [methods |-> {"GET"}, rule |-> "/metrics", endpoint |-> "metrics"],
     [methods |-> {"GET"}, rule |-> "/api/dashboard", endpoint |-> "dashboard"],
     [methods |-> {"GET"}, rule |-> "/api/overview", endpoint |-> "overview"],
     [methods |-> {"POST"}, rule |-> "/api/trigger", endpoint |-> "get_ci_config"],
     [methods |-> {"GET"}, rule |-> "/api/tools", endpoint |-> "tools"]}

\* the view function a request is dispatched to
View(method, path) ==
    IF \E r \in url_map : r.rule = path /\ method \in r.methods
    THEN (CHOOSE r \in url_map : r.rule = path /\ method \in r.methods).endpoint
    ELSE "no_view"

Req(method, path) == method \o " " \o path

\* a handler thread finishes a request with response d
Finish(t, req, d) ==
    run' = [run EXCEPT ![t] = [IdleRun EXCEPT !.pc = "done", !.req = req, !.resp = d]]

(* --------------------------- simple handlers -------------------------- *)

home(t) ==
    /\ Free(t)
    /\ View("GET", "/") = "home"
    /\ Finish(t, Req("GET", "/"), OtherDoc(200, "text"))
    /\ UNCHANGED <<env, fs, workers>>

metrics(t) ==
    /\ Free(t)
    /\ View("GET", "/metrics") = "metrics"
    /\ Finish(t, Req("GET", "/metrics"), OtherDoc(200, "exposition"))
    /\ UNCHANGED <<env, fs, workers>>

dashboard(t) ==
    /\ Free(t)
    /\ View("GET", "/api/dashboard") = "dashboard"
    /\ Finish(t, Req("GET", "/api/dashboard"), OtherDoc(200, "dashboard"))
    /\ UNCHANGED <<env, fs, workers>>

tools(t) ==
    /\ Free(t)
    /\ View("GET", "/api/tools") = "tools"
    /\ Finish(t, Req("GET", "/api/tools"), OtherDoc(200, "tools"))
    /\ UNCHANGED <<env, fs, workers>>

\* the view bound to POST /api/trigger: returns the CI configuration mapping
get_ci_config(t) ==
    /\ Free(t)
    /\ View("POST", "/api/trigger") = "get_ci_config"
    /\ Finish(t, Req("POST", "/api/trigger"), OtherDoc(200, "ci_config"))
    /\ UNCHANGED <<env, fs, workers>>

\* the response has been sent; the thread is free for the next request
Respond(t) ==
    /\ t <= workers
    /\ run[t].pc = "done"
    /\ run' = [run EXCEPT ![t] = IdleRun]
    /\ UNCHANGED <<env, fs, workers>>

(* ----------------------------- CI triggers ---------------------------- *)

\* Python's True / False / None as the first element of a helper's result
PyTrue == "True"
PyFalse == "False"

\* what requests.post(...) can do: return a response with a status code,
\* raise, or (called without a timeout) wait for an answer that never comes
PostOutcomes == {"204", "201", "200", "404", "exception", "hang"}

\* stands for the flag of a call that never returns
NoReturn == "<no return>"

\* trigger_github_workflow (the later definition, which the module keeps):
\* (flag, message), and whether the dispatch POST was sent
trigger_github_workflow(e, repo, o) ==
    IF ~Truthy(Getenv(e, "GITHUB_TOKEN"))
    THEN [flag |-> None, msg |-> "GitHub token not configured", sent |-> FALSE]
    ELSE IF Len(repo) # 2
    THEN [flag |-> PyFalse, msg |-> "Error triggering GitHub Actions", sent |-> FALSE]
    ELSE IF o = "hang"
    THEN [flag |-> NoReturn, msg |-> "", sent |-> TRUE]
    ELSE IF o = "exception"
    THEN [flag |-> PyFalse, msg |-> "Error triggering GitHub Actions", sent |-> TRUE]
    ELSE IF o = "204"
    THEN [flag |-> PyTrue, msg |-> "GitHub Actions workflow triggered successfully",
          sent |-> TRUE]
    ELSE [flag |-> PyFalse, msg |-> "Failed to trigger workflow", sent |-> TRUE]

\* variant: only 201 Created counts as a triggered build
trigger_jenkins_job_created_only(e, o) ==
    IF ~(Truthy(Getenv(e, "JENKINS_URL")) /\ Truthy(Getenv(e, "JENKINS_JOB")))
    THEN [flag |-> None, msg |-> "Jenkins URL/job not configured", sent |-> FALSE]
    ELSE IF o = "hang"
    THEN [flag |-> NoReturn, msg |-> "", sent |-> TRUE]
    ELSE IF o = "exception"
    THEN [flag |-> PyFalse, msg |-> "Error triggering Jenkins job", sent |-> TRUE]
    ELSE IF o = "201"
    THEN [flag |-> PyTrue, msg |-> "Jenkins job triggered successfully", sent |-> TRUE]
    ELSE [flag |-> PyFalse, msg |-> "Failed to trigger Jenkins job", sent |-> TRUE]

\* trigger_jenkins_job (the later definition)
trigger_jenkins_job(e, o) ==
    IF ~(Truthy(Getenv(e, "JENKINS_URL")) /\ Truthy(Getenv(e, "JENKINS_JOB")))
    THEN [flag |-> None, msg |-> "Jenkins URL/job not configured", sent |-> FALSE]
    ELSE IF o = "hang"
    THEN [flag |-> NoReturn, msg |-> "", sent |-> TRUE]
    ELSE IF o = "exception"
    THEN [flag |-> PyFalse, msg |-> "Error triggering Jenkins job", sent |-> TRUE]
    ELSE IF o \in {"201", "200"}
    THEN [flag |-> PyTrue, msg |-> "Jenkins job triggered successfully", sent |-> TRUE]
    ELSE [flag |-> PyFalse, msg |-> "Failed to trigger Jenkins job", sent |-> TRUE]

\* variant: anything but False counts as success
FlagNotFalse(f) == f # PyFalse

\* truthiness of a helper's flag
FlagTrue(f) == f = PyTrue

\* the repo arguments a helper is called with: "owner/name", and a name
\* without a slash
HelperRepos == {<<"test", "repo">>, <<"solo">>}

\* what a direct call of a helper leaves behind: the returned pair, whether
\* a POST went out and what it was answered
HelperCall(res, o) ==
    [flag |-> res.flag, msg |-> res.msg, sent |-> res.sent,
     post |-> IF res.sent THEN o ELSE "not sent"]

\* success, msg = trigger_github_workflow(repo, 'main')
call_trigger_github_workflow(t) ==
    /\ Free(t)
    /\ \E repo \in HelperRepos, o \in PostOutcomes :
         LET res == trigger_github_workflow(env, repo, o) IN
         run' = [run EXCEPT ![t] =
            [IdleRun EXCEPT !.pc = IF res.flag = NoReturn THEN "hung" ELSE "done",
                            !.req = "call trigger_github_workflow",
                            !.repo = repo,
                            !.ret = IF res.flag = NoReturn THEN <<>>
                                    ELSE <<HelperCall(res, o)>>,
                            !.http = IF res.sent THEN <<"POST github dispatch">> ELSE <<>>]]
    /\ UNCHANGED <<env, fs, workers>>

\* success, msg = trigger_jenkins_job(repo, 'main')
call_trigger_jenkins_job(t) ==
    /\ Free(t)
    /\ \E repo \in HelperRepos, o \in PostOutcomes :
         LET res == trigger_jenkins_job(env, o) IN
         run' = [run EXCEPT ![t] =
            [IdleRun EXCEPT !.pc = IF res.flag = NoReturn THEN "hung" ELSE "done",
                            !.req = "call trigger_jenkins_job",
                            !.repo = repo,
                            !.ret = IF res.flag = NoReturn THEN <<>>
                                    ELSE <<HelperCall(res, o)>>,
                            !.http = IF res.sent THEN <<"POST jenkins build">> ELSE <<>>]]
    /\ UNCHANGED <<env, fs, workers>>

(* ------------------------ Pipeline Orchestrator ----------------------- *)

Cmd(name, arg) == [cmd |-> name, arg |-> arg]

\* body.get('repo') or request.args.get('repo')
RepoOf(bodyRepo, argRepo) == IF bodyRepo # NoRepo THEN bodyRepo ELSE argRepo

\* body.get('branch') or 'main'
BranchOf(bodyBranch) == IF Truthy(bodyBranch) THEN bodyBranch ELSE "main"

\* JSON bodies of a trigger request, and values of its repo query parameter
Bodies ==
    {[repo |-> NoRepo, branch |-> None],
     [repo |-> <<"octocat", "Hello-World">>, branch |-> None],
     [repo |-> <<"solo">>, branch |-> "dev"]}
Args == {NoRepo, <<"octocat", "Hello-World">>}

\* variant: the validation never rejects
MissingRepoNever(repo) == FALSE

\* if not repo
MissingRepo(repo) == repo = NoRepo

ValidationStage ==
    [id |-> "error", name |-> "Input Validation", status |-> "failed",
     detail |-> "Repository (owner/repo) is required", log |-> <<>>]

\* variant: a name is picked without looking at the directories that exist
mkdtemp_any(dirs) == TmpNames

\* tempfile.mkdtemp: the names it can return; the directory is created
\* exclusively, so the name is one that does not exist yet
mkdtemp(dirs) == TmpNames \ dirs

\* trigger(): input validation, then tempfile.mkdtemp
trigger(t) ==
    /\ Free(t)
    /\ \E body \in Bodies, argRepo \in Args :
          LET repo == RepoOf(body.repo, argRepo) IN
          IF MissingRepo(repo)
          THEN /\ Finish(t, "call trigger",
                         StageDoc(400, <<ValidationStage>>, FALSE, <<>>, <<>>))
               /\ fs' = fs
          ELSE \E n \in mkdtemp(fs) :
                 /\ fs' = fs \cup {n}
                 /\ run' = [run EXCEPT ![t] =
                        [IdleRun EXCEPT !.pc = "clone", !.req = "call trigger",
                                        !.repo = repo, !.branch = BranchOf(body.branch),
                                        !.tmp = n]]
    /\ UNCHANGED <<env, workers>>

\* variant: a return that leaves without running the finally clause
ReturnSkippingFinally(r, stages, d) ==
    [r EXCEPT !.pc = "done", !.stages = stages, !.resp = d]

\* return jsonify(...), code from inside the try block: the finally clause
\* runs before the response leaves
Return(r, stages, d) ==
    [r EXCEPT !.pc = "finally", !.stages = stages, !.resp = d]

\* the thread waits inside a call that has no timeout and is never answered
Hung(r, stages) ==
    [r EXCEPT !.pc = "hung", !.stages = stages]

\* the text trigger() derives from the clone output
CloneErrorDetail(out, branch) ==
    CASE out = "repository not found" -> "Repository not found"
      [] out = "could not resolve host" -> "Network error - could not reach GitHub"
      [] out = "authentication failed" -> "Authentication failed"
      [] out = "branch not found" -> "Branch " \o branch \o " not found"
      [] OTHER -> "Unknown error"

\* outcomes of requests.head(https://github.com/<repo>), called without a
\* timeout
HeadOutcomes == {"200", "404", "exception", "hang"}

\* variant: no answer to the existence check ends the run
HeadFatalNever(h) == FALSE

\* if resp.status_code == 404: ... return
HeadFatal(h) == h = "404"

\* the commit id used in image tags: rev-parse output, else the clock
ShaOf(res) == IF res.rc = 0 THEN <<"commit">> ELSE <<"time">>

\* stage 1: existence check, shallow clone, rev-parse
CloneStage(t) ==
    /\ t <= workers
    /\ run[t].pc = "clone"
    /\ LET r == run[t]
           st0 == <<Stage("1", "Clone Repository", "in_progress", "Cloning")>>
       IN \E h \in HeadOutcomes, o \in CloneOutcomes, p \in {ExitOk, ExitFail} :
            IF h = "hang"
            THEN run' = [run EXCEPT ![t] =
                    Hung([r EXCEPT !.http = <<"HEAD github">>, !.head = h], st0)]
            ELSE IF HeadFatal(h)
            THEN LET st == UpdateLast(st0, "failed", "Repository not found on GitHub", <<>>)
                 IN run' = [run EXCEPT ![t] =
                        Return([r EXCEPT !.http = <<"HEAD github">>, !.head = h], st,
                               StageDoc(200, st, FALSE, <<>>, <<>>))]
            ELSE LET res == _run_cmd(o)
                     st1 == SetLastLog(st0, <<res.out>>)
                     r1 == [r EXCEPT !.http = <<"HEAD github">>, !.head = h,
                                     !.spawned = <<Cmd("git clone", <<r.tmp>>)>>]
                 IN IF res.rc # 0
                    THEN run' = [run EXCEPT ![t] =
                           [r1 EXCEPT !.pc = "ci",
                                      !.stages = UpdateLast(st1, "failed",
                                          "Clone failed: " \o CloneErrorDetail(res.out, r.branch),
                                          <<res.out>>)]]
                    ELSE run' = [run EXCEPT ![t] =
                           [r1 EXCEPT !.pc = "test", !.stages = st1,
                                      !.sha = ShaOf(_run_cmd(p)),
                                      !.spawned = Append(r1.spawned, Cmd("git rev-parse", <<>>))]]
    /\ UNCHANGED <<env, fs, workers>>

\* clone failed: try to trigger an external CI system instead
CIFallback(t) ==
    /\ t <= workers
    /\ run[t].pc = "ci"
    /\ LET r == run[t]
           st0 == Append(r.stages,
                     Stage("2", "CI Trigger", "in_progress", "Attempting to trigger CI pipeline"))
       IN \E go \in PostOutcomes, jo \in PostOutcomes :
            LET gh == trigger_github_workflow(env, r.repo, go)
                jk == trigger_jenkins_job(env, jo)
                h1 == IF gh.sent THEN Append(r.http, "POST github dispatch") ELSE r.http
                h2 == IF jk.sent THEN Append(h1, "POST jenkins build") ELSE h1
            IN IF gh.flag = NoReturn
               THEN run' = [run EXCEPT ![t] = Hung([r EXCEPT !.http = h1], st0)]
               ELSE IF FlagTrue(gh.flag)
               THEN LET st == UpdateLast(st0, "success", gh.msg, <<>>)
                    IN run' = [run EXCEPT ![t] =
                          Return([r EXCEPT !.http = h1, !.github_success = gh.flag],
                                 st, StageDoc(200, st, FALSE, <<>>, <<>>))]
               ELSE IF jk.flag = NoReturn
               THEN run' = [run EXCEPT ![t] =
                      Hung([r EXCEPT !.http = h2, !.github_success = gh.flag], st0)]
               ELSE LET st == IF FlagTrue(jk.flag)
                              THEN UpdateLast(st0, "success", jk.msg, <<>>)
                              ELSE UpdateLast(st0, "failed",
                                     "CI not configured properly: " \o gh.msg \o ", " \o jk.msg, <<>>)
                    IN run' = [run EXCEPT ![t] =
                          Return([r EXCEPT !.http = h2, !.github_success = gh.flag,
                                           !.jenkins_success = jk.flag],
                                 st, StageDoc(200, st, FALSE, <<>>, <<>>))]
    /\ UNCHANGED <<env, fs, workers>>

\* the marker files a cloned workspace may hold
MarkerFiles == {"requirements.txt", "setup.py", "package.json"}

\* project type detection by marker file
ProjectType(files) ==
    IF "requirements.txt" \in files \/ "setup.py" \in files THEN "python"
    ELSE IF "package.json" \in files THEN "node"
    ELSE "none"

\* variant: only a positive exit code ends the run
TestFatalPositive(test_rc) == test_rc > 0

\* a non-zero exit of the test command ends the run
TestFatal(test_rc) == test_rc # 0

\* stage 2: run the project's tests if a known project type is detected
TestStage(t) ==
    /\ t <= workers
    /\ run[t].pc = "test"
    /\ LET r == run[t]
           st0 == Append(r.stages, Stage("2", "Run Unit Tests", "in_progress", Absent))
       IN \E files \in SUBSET MarkerFiles, o1 \in ProcOutcomes, o2 \in ProcOutcomes :
            LET kind == ProjectType(files)
                res1 == _run_cmd(o1)
                res2 == _run_cmd(o2)
                test_rc == CASE kind = "python" -> res1.rc
                             [] kind = "node" -> res2.rc
                             [] OTHER -> 0
                test_out == CASE kind = "python" -> <<res1.out>>
                              [] kind = "node" -> <<res1.out, res2.out>>
                              [] OTHER -> <<"no tests detected">>
                sp == CASE kind = "python" -> <<Cmd("pytest", <<>>)>>
                        [] kind = "node" -> <<Cmd("npm ci", <<>>), Cmd("npm test", <<>>)>>
                        [] OTHER -> <<>>
                st == SetLastStatus(SetLastLog(st0, test_out),
                                    IF test_rc = 0 THEN "success" ELSE "failed")
                r1 == [r EXCEPT !.spawned = r.spawned \o sp, !.test_rc = <<test_rc>>]
            IN IF TestFatal(test_rc)
               THEN run' = [run EXCEPT ![t] =
                      Return(r1, st, StageDoc(200, st, TRUE, <<>>, <<"tests failed">>))]
               ELSE run' = [run EXCEPT ![t] = [r1 EXCEPT !.pc = "build", !.stages = st]]
    /\ UNCHANGED <<env, fs, workers>>

\* os.environ.get('DOCKERHUB_REPO') or repo.split('/')[-1]
DockerRepo(e, repo) ==
    IF Truthy(Getenv(e, "DOCKERHUB_REPO")) THEN Getenv(e, "DOCKERHUB_REPO")
    ELSE Basename(repo)

\* f'{name}:{sha[:7]}'
ImageTag(name, sha) == <<name, sha[1]>>

\* a non-zero exit of docker build ends the run
BuildFatal(rc) == rc # 0

\* stage 3: docker build
BuildStage(t) ==
    /\ t <= workers
    /\ run[t].pc = "build"
    /\ LET r == run[t]
           st0 == Append(r.stages, Stage("3", "Docker Build", "in_progress", Absent))
           tag == ImageTag(DockerRepo(env, r.repo), r.sha)
       IN \E o \in ProcOutcomes :
            LET res == _run_cmd(o)
                st == SetLastStatus(SetLastLog(st0, <<res.out>>),
                                    IF res.rc = 0 THEN "success" ELSE "failed")
                r1 == [r EXCEPT !.spawned = Append(r.spawned, Cmd("docker build", tag)),
                                !.tag = tag]
            IN IF BuildFatal(res.rc)
               THEN run' = [run EXCEPT ![t] =
                      Return(r1, st, StageDoc(200, st, TRUE, <<>>, <<"docker build failed">>))]
               ELSE run' = [run EXCEPT ![t] = [r1 EXCEPT !.pc = "push", !.stages = st]]
    /\ UNCHANGED <<env, fs, workers>>

\* dh_user and dh_pass
CredsPresent(e) ==
    Truthy(Getenv(e, "DOCKERHUB_USER")) /\ Truthy(Getenv(e, "DOCKERHUB_PASS"))

\* docker login is run with subprocess.run directly and without a timeout:
\* it exits, the spawn raises, or the child never exits
NeverExits == [kind |-> "hang", rc |-> 0, out |-> ""]
LoginOutcomes == {ExitOk, ExitFail, SpawnError, NeverExits}

\* an exception leaves the try block: the finally clause runs, no value is returned
Raise(r, stages) ==
    [r EXCEPT !.pc = "finally", !.stages = stages, !.exc = TRUE]

\* stage 4: docker login and push, when registry credentials are set
PushStage(t) ==
    /\ t <= workers
    /\ run[t].pc = "push"
    /\ LET r == run[t]
           st0 == Append(r.stages, Stage("4", "Docker Push", "in_progress", Absent))
       IN IF CredsPresent(env)
          THEN \E to \in ProcOutcomes, lo \in LoginOutcomes, po \in ProcOutcomes :
                 LET renamed == Truthy(Getenv(env, "DOCKERHUB_REPO"))
                     full_tag == IF renamed
                                 THEN ImageTag(Getenv(env, "DOCKERHUB_REPO"), r.sha)
                                 ELSE r.tag
                     sp1 == IF renamed
                            THEN Append(r.spawned, Cmd("docker tag", full_tag))
                            ELSE r.spawned
                     sp2 == Append(sp1, Cmd("docker login", <<>>))
                     res == _run_cmd(po)
                 IN IF lo.kind = "hang"
                    THEN run' = [run EXCEPT ![t] =
                           Hung([r EXCEPT !.spawned = sp2, !.full_tag = full_tag], st0)]
                    ELSE IF lo.kind # "exit"
                    THEN run' = [run EXCEPT ![t] =
                           Raise([r EXCEPT !.spawned = sp2, !.full_tag = full_tag], st0)]
                    ELSE IF lo.rc = 0
                    THEN LET st == SetLastStatus(SetLastLog(st0, <<lo.out, res.out>>),
                                      IF res.rc = 0 THEN "success" ELSE "failed")
                         IN run' = [run EXCEPT ![t] =
                               [r EXCEPT !.pc = "deploy",
                                         !.stages = st,
                                         !.spawned = Append(sp2, Cmd("docker push", full_tag)),
                                         !.full_tag = full_tag, !.pushed = (res.rc = 0)]]
                    ELSE LET st == SetLastStatus(SetLastLog(st0, <<lo.out>>), "failed")
                         IN run' = [run EXCEPT ![t] =
                               [r EXCEPT !.pc = "deploy",
                                         !.stages = st, !.spawned = sp2,
                                         !.full_tag = full_tag]]
          ELSE LET st == SetLastStatus(SetLastLog(st0, <<"credentials not set, skipping push">>),
                                       "in_progress")
               IN run' = [run EXCEPT ![t] = [r EXCEPT !.pc = "deploy", !.stages = st]]
    /\ UNCHANGED <<env, fs, workers>>

\* variant: always deploy the registry tag
DeployTagRegistry(pushed, full_tag, tag) == full_tag

\* full_tag if pushed else tag
DeployTag(pushed, full_tag, tag) == IF pushed THEN full_tag ELSE tag

\* stage 5: kubectl set image; always the last stage
DeployStage(t) ==
    /\ t <= workers
    /\ run[t].pc = "deploy"
    /\ LET r == run[t]
           st0 == Append(r.stages, Stage("5", "Kubernetes Deploy", "in_progress", Absent))
           deploy_tag == DeployTag(r.pushed, r.full_tag, r.tag)
       IN IF deploy_tag = Unbound
          THEN run' = [run EXCEPT ![t] = Raise(r, st0)]
          ELSE \E o \in ProcOutcomes, elapsed \in {0, MaxElapsed} :
                 LET res == _run_cmd(o)
                     st == SetLastStatus(SetLastLog(st0, <<res.out>>),
                                         IF res.rc = 0 THEN "success" ELSE "failed")
                     r1 == [r EXCEPT !.spawned =
                               Append(r.spawned, Cmd("kubectl set image", deploy_tag))]
                 IN run' = [run EXCEPT ![t] =
                       Return(r1, st, StageDoc(200, st, TRUE, <<elapsed>>, <<>>))]
    /\ UNCHANGED <<env, fs, workers>>

\* shutil.rmtree either removes the tree or raises
RmtreeOutcomes == {"removed", "raised"}

\* what is left of the filesystem after try: shutil.rmtree(tmp) except: pass
Rmtree(dirs, tmp, o) == IF o = "removed" THEN dirs \ {tmp} ELSE dirs

\* the response the server sends for a view that raised
InternalError == OtherDoc(500, "internal_error")

\* the finally clause of trigger(), then the response leaves
Finally(t) ==
    /\ t <= workers
    /\ run[t].pc = "finally"
    /\ \E o \in RmtreeOutcomes :
         /\ fs' = Rmtree(fs, run[t].tmp, o)
         /\ run' = [run EXCEPT ![t] =
               [@ EXCEPT !.pc = "done", !.rmtree = o,
                         !.resp = IF run[t].exc THEN InternalError ELSE @]]
    /\ UNCHANGED <<env, workers>>

(* ---------------------------- Status Probes --------------------------- *)

\* a probe's return value is <<>> (None) or <<dict>>; contacted tells whether
\* the probe sent a request or spawned a process, target names what it
\* addressed, raised whether an exception left the probe
ProbeNone(contacted, target) ==
    [res |-> <<>>, contacted |-> contacted, target |-> target, raised |-> FALSE]

ProbeDict(status, detail, target) ==
    [res |-> <<[status |-> status, detail |-> detail]>>, contacted |-> TRUE,
     target |-> target, raised |-> FALSE]

Unreachable == [kind |-> "exception"]

\* answers of the GitHub runs API: an error, no runs, or the latest run
GithubOutcomes ==
    {Unreachable, [kind |-> "no_runs"]}
    \cup {[kind |-> "run", status |-> x, conclusion |-> "success"] :
             x \in {"in_progress", "queued", "completed", "waiting"}}
    \cup {[kind |-> "run", status |-> "completed", conclusion |-> "failure"]}

\* the probe's reading of the latest workflow run
GithubRunStatus(o) ==
    IF o.kind # "run" THEN ProbeNone(TRUE, "api.github.com")
    ELSE IF o.status \in {"in_progress", "queued"}
    THEN ProbeDict("in_progress", o.status, "api.github.com")
    ELSE IF o.status = "completed"
    THEN ProbeDict(IF o.conclusion = "success" THEN "success" ELSE "failed",
                   o.conclusion, "api.github.com")
    ELSE ProbeDict("unknown", o.status, "api.github.com")

\* variant: only the token is required
github_actions_status_token_only(e, o) ==
    IF ~Truthy(Getenv(e, "GITHUB_TOKEN")) THEN ProbeNone(FALSE, None)
    ELSE GithubRunStatus(o)

github_actions_status(e, o) ==
    IF ~Truthy(Getenv(e, "GITHUB_REPO")) \/ ~Truthy(Getenv(e, "GITHUB_TOKEN"))
    THEN ProbeNone(FALSE, None)
    ELSE GithubRunStatus(o)

\* answers of the Jenkins lastBuild API: an error, or the build's result
JenkinsOutcomes ==
    {Unreachable} \cup {[kind |-> "build", result |-> x] : x \in {None, "SUCCESS", "FAILURE"}}

jenkins_status(e, o) ==
    IF ~Truthy(Getenv(e, "JENKINS_URL")) \/ ~Truthy(Getenv(e, "JENKINS_JOB"))
    THEN ProbeNone(FALSE, None)
    ELSE IF o.kind # "build" THEN ProbeNone(TRUE, Getenv(e, "JENKINS_URL"))
    ELSE IF o.result = None
    THEN ProbeDict("in_progress", "building", Getenv(e, "JENKINS_URL"))
    ELSE ProbeDict(IF o.result = "SUCCESS" THEN "success" ELSE "failed",
                   o.result, Getenv(e, "JENKINS_URL"))

\* answers of the DockerHub tag API: an error, or a status code
DockerhubOutcomes ==
    {Unreachable} \cup {[kind |-> "response", code |-> c] : c \in {200, 404, 500}}

dockerhub_status(e, o) ==
    IF ~Truthy(Getenv(e, "DOCKERHUB_REPO")) THEN ProbeNone(FALSE, None)
    ELSE IF o.kind # "response" THEN ProbeNone(TRUE, "hub.docker.com")
    ELSE IF o.code = 200 THEN ProbeDict("success", "tag present", "hub.docker.com")
    ELSE IF o.code = 404 THEN ProbeDict("in_progress", "tag not found", "hub.docker.com")
    ELSE ProbeDict("unknown", "status", "hub.docker.com")

\* kubectl get deployment: non-zero exit, any other failure, or the replica counts
KubectlOutcomes ==
    {Unreachable, [kind |-> "CalledProcessError"]}
    \cup {[kind |-> "json", replicas |-> r[1], available |-> r[2], updated |-> r[3]] :
             r \in {<<1, 1, 1>>, <<1, 0, 1>>, <<2, 2, 1>>, <<2, 3, 2>>}}

\* os.environ.get('K8S_DEPLOYMENT') or 'user-service'
K8sDeploymentName(e) ==
    IF Truthy(Getenv(e, "K8S_DEPLOYMENT")) THEN Getenv(e, "K8S_DEPLOYMENT")
    ELSE "user-service"

kubernetes_deploy_status(e, o) ==
    IF o.kind = "CalledProcessError"
    THEN ProbeDict("failed", "kubectl error or deployment not found", K8sDeploymentName(e))
    ELSE IF o.kind # "json" THEN ProbeNone(TRUE, K8sDeploymentName(e))
    ELSE IF o.available >= o.replicas /\ o.updated >= o.replicas
    THEN ProbeDict("success", "replicas available", K8sDeploymentName(e))
    ELSE ProbeDict("in_progress", "replicas available", K8sDeploymentName(e))

\* PROMETHEUS_URL or PROMETHEUS or 'http://localhost:9090'
PromUrl(e) ==
    IF Truthy(Getenv(e, "PROMETHEUS_URL")) THEN Getenv(e, "PROMETHEUS_URL")
    ELSE IF Truthy(Getenv(e, "PROMETHEUS")) THEN Getenv(e, "PROMETHEUS")
    ELSE "http://localhost:9090"

\* answers of an instant query: an error, a non-success body, no sample, a sample
PromOutcomes ==
    {Unreachable, [kind |-> "not_success"], [kind |-> "empty"]}
    \cup {[kind |-> "sample", value |-> v] : v \in {0, 2}}

\* answers to the http_errors_total query
ErrsOutcomes == {Unreachable, [kind |-> "sample", value |-> 2]}

\* prom_query: the first sample's value as <<v>>, or <<>> (None)
prom_query(e, o) ==
    [res |-> IF o.kind = "sample" THEN <<o.value>> ELSE <<>>,
     contacted |-> TRUE, target |-> PromUrl(e), raised |-> FALSE]

(* -------------------------- Overview Aggregator ----------------------- *)

OvStage(id, name, status, detail) ==
    [id |-> id, name |-> name, status |-> status, detail |-> detail]

\* "if gha:" / "elif jnk:": a probe result that is a (non-empty) dict
Got(p) == p.res # <<>>

\* stage 2: GitHub Actions preferred, else Jenkins
CIStage(gha, jnk) ==
    IF Got(gha)
    THEN OvStage("2", "CI Trigger (GitHub Actions)", gha.res[1].status, gha.res[1].detail)
    ELSE IF Got(jnk)
    THEN OvStage("2", "CI Trigger (Jenkins)", jnk.res[1].status, jnk.res[1].detail)
    ELSE OvStage("2", "CI Trigger", "unknown", "No CI configured")

\* stage 3: inferred from the CI status
DockerBuildStatus(gha, jnk) ==
    IF Got(gha) /\ gha.res[1].status = "success" THEN "success"
    ELSE IF Got(gha) /\ gha.res[1].status = "in_progress" THEN "in_progress"
    ELSE IF Got(jnk) /\ jnk.res[1].status = "success" THEN "success"
    ELSE IF Got(jnk) /\ jnk.res[1].status = "in_progress" THEN "in_progress"
    ELSE "unknown"

\* the stage a probe result is shown as, or the unknown placeholder
ProbeStage(id, name, p, placeholder) ==
    IF Got(p) THEN OvStage(id, name, p.res[1].status, p.res[1].detail)
    ELSE OvStage(id, name, "unknown", placeholder)

\* stage 6: from the up{job="user-service"} query
PromStage(svc_up) ==
    IF svc_up.res # <<>>
    THEN OvStage("6", "Prometheus Scrape",
                 IF svc_up.res[1] > 0 THEN "success" ELSE "in_progress", "user-service up")
    ELSE OvStage("6", "Prometheus Scrape", "unknown", None)

\* errorRate: (errs / req_rate) * 100 when both are there and req_rate is not 0
ErrRate(errs, req_rate) ==
    IF errs.res # <<>> /\ req_rate.res # <<>> /\ req_rate.res[1] # 0
    THEN <<(errs.res[1] * 100) \div req_rate.res[1]>>
    ELSE <<>>

\* a backend answers only a probe that asks it
Answers(p, outcomes) == IF p.contacted THEN outcomes ELSE {Unreachable}

\* GET /api/overview: every probe is called once, the metrics query three times
overview(t) ==
    /\ Free(t)
    /\ View("GET", "/api/overview") = "overview"
    /\ \E argRepo \in Args,
          go \in Answers(github_actions_status(env, Unreachable), GithubOutcomes),
          jo \in Answers(jenkins_status(env, Unreachable), JenkinsOutcomes),
          do \in Answers(dockerhub_status(env, Unreachable), DockerhubOutcomes),
          ko \in Answers(kubernetes_deploy_status(env, Unreachable), KubectlOutcomes),
          q1 \in PromOutcomes, q2 \in PromOutcomes, q3 \in ErrsOutcomes :
         LET gh_repo == IF argRepo # NoRepo THEN "repo" ELSE Getenv(env, "GITHUB_REPO")
             gha == github_actions_status(env, go)
             jnk == jenkins_status(env, jo)
             dh == dockerhub_status(env, do)
             k8s == kubernetes_deploy_status(env, ko)
             svc_up == prom_query(env, q1)
             req_rate == prom_query(env, q2)
             errs == prom_query(env, q3)
             stages ==
                 <<IF Truthy(gh_repo)
                   THEN OvStage("1", "GitHub Repo", "success", gh_repo)
                   ELSE OvStage("1", "GitHub Repo", "unknown", "GITHUB_REPO not set"),
                   CIStage(gha, jnk),
                   OvStage("3", "Docker Build & Unit Tests", DockerBuildStatus(gha, jnk), Absent),
                   ProbeStage("4", "Push to DockerHub", dh, "DOCKERHUB_REPO not set or unreachable"),
                   ProbeStage("5", "Kubernetes Deploy", k8s,
                              "kubectl not available or cluster unreachable"),
                   PromStage(svc_up),
                   IF Truthy(Getenv(env, "GRAFANA_URL"))
                   THEN OvStage("7", "Grafana Dashboard", "success", Absent)
                   ELSE OvStage("7", "Grafana Dashboard", "unknown", "GRAFANA_URL not set")>>
         IN run' = [run EXCEPT ![t] =
               [IdleRun EXCEPT
                   !.pc = "done", !.req = Req("GET", "/api/overview"),
                   !.resp = [OtherDoc(200, "overview") EXCEPT
                                !.stages = stages,
                                !.metrics = <<req_rate.res, ErrRate(errs, req_rate)>>,
                                !.hasMetrics = TRUE],
                   !.probes = [github |-> gha, jenkins |-> jnk, dockerhub |-> dh,
                               kubernetes |-> k8s, up |-> svc_up,
                               req_rate |-> req_rate, errs |-> errs]]]
    /\ UNCHANGED <<env, fs, workers>>

(* ---------------------------- specification --------------------------- *)

Init ==
    /\ env \in SUBSET TriggerEnvVars
    /\ fs = {}
    /\ workers = 1
    /\ run = [t \in Threads |-> IdleRun]

Next ==
    \E t \in Threads :
        \/ home(t)
        \/ metrics(t)
        \/ dashboard(t)
        \/ tools(t)
        \/ get_ci_config(t)
        \/ trigger(t)
        \/ CloneStage(t)
        \/ CIFallback(t)
        \/ TestStage(t)
        \/ BuildStage(t)
        \/ PushStage(t)
        \/ DeployStage(t)
        \/ Finally(t)
        \/ Respond(t)

Spec == Init /\ [][Next]_vars

\* the overview under every configuration of the probes
InitProbes ==
    /\ env \in SUBSET ProbeEnvVars
    /\ fs = {}
    /\ workers = 1
    /\ run = [t \in Threads |-> IdleRun]

NextProbes ==
    \E t \in Threads :
        \/ overview(t)
        \/ Respond(t)

SpecProbes == InitProbes /\ [][NextProbes]_vars

\* the CI trigger helpers called on their own, as the unit tests do
NextTriggers ==
    \E t \in Threads :
        \/ call_trigger_github_workflow(t)
        \/ call_trigger_jenkins_job(t)
        \/ Respond(t)

SpecTriggers == Init /\ [][NextTriggers]_vars

\* concurrent trigger() runs: every handler thread of the server is in use.
\* The interleavings are explored with nothing configured and the tools
\* answering plainly: the HEAD check is answered or not, but does not
\* raise; git clone exits with 0 or 128, every later process with 0; the
\* project has no Node tests; the run takes less than a second.  rmtree
\* keeps both its outcomes.
PlainTexts ==
    {"ok", "fatal", "no tests detected", "credentials not set, skipping push"}

Plain(r) ==
    /\ \A i \in 1..Len(r.stages) :
          \A j \in 1..Len(r.stages[i].log) : r.stages[i].log[j] \in PlainTexts
    /\ r.sha \in {Unbound, <<"commit">>}
    /\ r.resp.metrics \in {<<>>, <<0>>}
    /\ \A i \in 1..Len(r.spawned) : r.spawned[i].cmd # "npm ci"
    /\ r.branch = "main"
    /\ r.head # "exception"

InitConcurrent ==
    /\ env = {}
    /\ fs = {}
    /\ workers = MaxWorkers
    /\ run = [t \in Threads |-> IdleRun]

PipelineStep(t) ==
    \/ trigger(t)
    \/ CloneStage(t)
    \/ CIFallback(t)
    \/ TestStage(t)
    \/ BuildStage(t)
    \/ PushStage(t)
    \/ DeployStage(t)
    \/ Finally(t)
    \/ Respond(t)

NextConcurrent ==
    \E t \in Threads : PipelineStep(t) /\ Plain(run'[t])

SpecConcurrent == InitConcurrent /\ [][NextConcurrent]_vars

(* ------------------------------- helpers ------------------------------ *)

Active == {t \in Threads : run[t].pc # "idle"}

\* threads running (or having run) trigger()
Runs == {t \in Active : run[t].req = "call trigger"}

\* trigger() has returned or raised, the finally clause is over
Ended(t) == run[t].pc = "done"

SpawnedCmds(t) == {run[t].spawned[i].cmd : i \in 1..Len(run[t].spawned)}

StageNames(st) == [i \in 1..Len(st) |-> st[i].name]

PipelineNames ==
    <<"Clone Repository", "Run Unit Tests", "Docker Build", "Docker Push",
      "Kubernetes Deploy">>

(* -------------------------------- claims ------------------------------ *)

\* C1: every response to POST /api/trigger is a pipeline stage document
\* (a pipelineStages list), never the CI configuration mapping.
C1_TriggerRouteAnswersStageDocument ==
    \A t \in Active :
        (Ended(t) /\ run[t].req = Req("POST", "/api/trigger"))
            => run[t].resp.kind = "stages"

\* C2 (as stated): once a run that created a workspace has ended, the
\* workspace no longer exists.
C2_WorkspaceGoneAfterRun ==
    \A t \in Runs :
        (Ended(t) /\ run[t].tmp # 0) => run[t].tmp \notin fs

\* C2 (amended): every run that created a workspace calls shutil.rmtree on it
\* before it ends, on every exit path, and the workspace no longer exists
\* afterwards unless rmtree itself raised.
C2_WorkspaceRemovalAttempted ==
    \A t \in Runs :
        (Ended(t) /\ run[t].tmp # 0)
            => /\ run[t].rmtree # "not called"
               /\ run[t].rmtree = "removed" => run[t].tmp \notin fs

\* a run that raised inside a stage ended with its workspace removed
C2_Witness ==
    \E t \in Runs :
        Ended(t) /\ run[t].exc /\ run[t].rmtree = "removed" /\ run[t].tmp \notin fs

\* C3: a failed stage other than Deploy stops the run: no pipeline stage
\* follows a failed stage, and after a failed Push no Deploy is attempted.
C3_FailedStageStopsRun ==
    \A t \in Runs :
        LET st == run[t].stages IN
        /\ \A i \in 1..Len(st), j \in 1..Len(st) :
              (i < j /\ st[i].status = "failed") => st[j].name = "CI Trigger"
        /\ (Len(st) >= 4 /\ st[4].status = "failed")
              => "kubectl set image" \notin SpawnedCmds(t)

\* C4: repository exists, no project marker, every command exits 0: the
\* response holds the five stages in order, all success except possibly Push
\* (in_progress without credentials), and metrics.durationSeconds >= 0.
C4_HappyPathAllSuccess ==
    \A t \in Runs :
        LET d == run[t].resp IN
        (/\ Ended(t) /\ ~run[t].exc
         /\ Len(d.stages) = 5
         /\ run[t].sha = <<"commit">>
         /\ d.stages[2].log = <<"no tests detected">>
         /\ d.stages[4].status # "failed"
         /\ d.stages[5].log = <<"ok">>)
            => /\ StageNames(d.stages) = PipelineNames
               /\ \A i \in {1, 2, 3, 5} : d.stages[i].status = "success"
               /\ \/ d.stages[4].status = "success"
                  \/ /\ d.stages[4].status = "in_progress"
                     /\ ~({"DOCKERHUB_USER", "DOCKERHUB_PASS"} \subseteq env)
               /\ d.hasMetrics /\ Len(d.metrics) = 1 /\ d.metrics[1] >= 0

\* the clone command of run t exited non-zero
CloneFailed(t) ==
    /\ Len(run[t].spawned) >= 1
    /\ Len(run[t].stages) >= 1
    /\ run[t].stages[1].status = "failed"

\* C5: after a non-zero clone the run ends with the failed Clone stage and
\* exactly one CI-trigger stage (id 2), nothing else is spawned; that stage
\* is success iff the GitHub or else the Jenkins trigger succeeded, and
\* Jenkins is triggered only when GitHub did not succeed.
C5_CloneFailureFallsBackToCI ==
    \A t \in Runs :
        (CloneFailed(t) /\ run[t].pc \in {"finally", "done"})
            => LET st == run[t].resp.stages IN
               /\ run[t].resp.code = 200 \/ run[t].pc = "finally"
               /\ Len(st) = 2
               /\ st[1].name = "Clone Repository" /\ st[1].status = "failed"
               /\ st[2].name = "CI Trigger" /\ st[2].id = "2"
               /\ SpawnedCmds(t) = {"git clone"}
               /\ st[2].status \in {"success", "failed"}
               /\ st[2].status = "success"
                     <=> (run[t].github_success = PyTrue \/ run[t].jenkins_success = PyTrue)
               /\ run[t].github_success = PyTrue
                     => /\ run[t].jenkins_success = "unset"
                        /\ "POST jenkins build" \notin
                              {run[t].http[i] : i \in 1..Len(run[t].http)}

\* a clone failure answered by a successful Jenkins trigger after GitHub failed
C5_Witness ==
    \E t \in Runs :
        /\ Ended(t) /\ CloneFailed(t)
        /\ run[t].github_success = PyFalse /\ run[t].jenkins_success = PyTrue
        /\ run[t].resp.stages[2].status = "success"

BuildPushDeployCmds ==
    {"docker build", "docker tag", "docker login", "docker push", "kubectl set image"}

\* C6: when the test command exits non-zero the run stops: exactly two
\* stages, the second (Test) failed, and no build, push or deploy process.
C6_TestFailureStopsRun ==
    \A t \in Runs :
        (run[t].test_rc # <<>> /\ run[t].test_rc[1] # 0)
            => /\ run[t].pc \in {"finally", "done"}
               /\ Len(run[t].stages) = 2
               /\ run[t].stages[2].name = "Run Unit Tests"
               /\ run[t].stages[2].status = "failed"
               /\ run[t].resp.stages = run[t].stages
               /\ run[t].resp.error = <<"tests failed">>
               /\ SpawnedCmds(t) \cap BuildPushDeployCmds = {}

\* a Node project whose npm test timed out
C6_Witness ==
    \E t \in Runs :
        /\ Ended(t) /\ run[t].test_rc = <<-1>>
        /\ "npm test" \in SpawnedCmds(t)
        /\ Len(run[t].resp.stages) = 2

\* the image arguments of the kubectl set image commands of run t
DeployedImages(t) ==
    {run[t].spawned[i].arg : i \in {k \in 1..Len(run[t].spawned) :
                                      run[t].spawned[k].cmd = "kubectl set image"}}

\* C7: without both registry credentials, after a successful build no login
\* or push is spawned, Push is in_progress (not failed), and Deploy still runs
\* with the locally built tag; a run that did not push deploys the local tag.
C7_NoCredentialsSkipsPush ==
    \A t \in Runs :
        /\ (~({"DOCKERHUB_USER", "DOCKERHUB_PASS"} \subseteq env) /\ Len(run[t].stages) >= 4)
              => /\ SpawnedCmds(t) \cap {"docker tag", "docker login", "docker push"} = {}
                 /\ run[t].stages[4].name = "Docker Push"
                 /\ run[t].stages[4].status = "in_progress"
                 /\ ~run[t].exc
                 /\ run[t].pc \in {"deploy", "finally", "done"}
                 /\ run[t].pc \in {"finally", "done"}
                       => /\ Len(run[t].stages) = 5
                          /\ run[t].stages[5].name = "Kubernetes Deploy"
                          /\ run[t].stages[5].status \in {"success", "failed"}
                          /\ DeployedImages(t) = {run[t].tag}
        /\ ~run[t].pushed => DeployedImages(t) \subseteq {run[t].tag}
        /\ run[t].pushed => DeployedImages(t) \subseteq {run[t].full_tag}

\* only the user name is configured: Push skipped, Deploy ran with the local tag
C7_Witness ==
    \E t \in Runs :
        /\ Ended(t)
        /\ "DOCKERHUB_USER" \in env /\ "DOCKERHUB_PASS" \notin env
        /\ Len(run[t].resp.stages) = 5
        /\ run[t].stages[4].status = "in_progress"
        /\ DeployedImages(t) = {run[t].tag}
        /\ run[t].resp.stages[5].status = "success"

\* C8: a trigger without a repo (body or query) is answered 400 with the
\* single failed Input Validation stage, before any workspace is created,
\* any HTTP request is sent or any process is spawned.
C8_MissingRepoRejectedFirst ==
    \A t \in Runs :
        run[t].repo = NoRepo
            => /\ Ended(t)
               /\ run[t].resp.code = 400
               /\ run[t].resp.stages = <<ValidationStage>>
               /\ run[t].tmp = 0
               /\ run[t].rmtree = "not called"
               /\ run[t].http = <<>>
               /\ run[t].spawned = <<>>

\* a rejected trigger
C8_Witness ==
    \E t \in Runs :
        /\ Ended(t) /\ run[t].repo = NoRepo /\ run[t].resp.code = 400
        /\ run[t].resp.stages[1].name = "Input Validation"

\* C9: every trigger that supplies a repo is answered 200 with a stage list,
\* whatever the external calls and processes do; only the missing-repo case
\* is answered otherwise.
C9_RepoGivenAlways200 ==
    \A t \in Runs :
        (Ended(t) /\ run[t].repo # NoRepo)
            => run[t].resp.code = 200 /\ run[t].resp.kind = "stages"

\* threads that answered GET /api/overview
Overviews == {t \in Active : run[t].req = Req("GET", "/api/overview")}

\* the probe returned None, contacted nothing and raised nothing
Silent(p) == p.res = <<>> /\ ~p.contacted /\ ~p.raised

ProbeNames == {"github", "jenkins", "dockerhub", "kubernetes", "up", "req_rate", "errs"}

\* C10 (as stated): every probe whose ambient configuration is missing
\* returns None without contacting a backend or spawning a process, and
\* never raises.
C10_UnconfiguredProbeIsSilent ==
    \A t \in Overviews :
        LET p == run[t].probes IN
        /\ ~({"GITHUB_REPO", "GITHUB_TOKEN"} \subseteq env) => Silent(p.github)
        /\ ~({"JENKINS_URL", "JENKINS_JOB"} \subseteq env) => Silent(p.jenkins)
        /\ "DOCKERHUB_REPO" \notin env => Silent(p.dockerhub)
        /\ "K8S_DEPLOYMENT" \notin env => Silent(p.kubernetes)
        /\ "PROMETHEUS_URL" \notin env
              => Silent(p.up) /\ Silent(p.req_rate) /\ Silent(p.errs)
        /\ \A n \in ProbeNames : ~p[n].raised

\* C10 (amended): the GitHub Actions, Jenkins and DockerHub probes return
\* None without contacting anything when their required variables are
\* missing; the Kubernetes and metrics probes have defaults for theirs and
\* contact the backend in every configuration; no probe raises.
C10_RequiredConfigGatesProbe ==
    \A t \in Overviews :
        LET p == run[t].probes IN
        /\ ~({"GITHUB_REPO", "GITHUB_TOKEN"} \subseteq env) => Silent(p.github)
        /\ ~({"JENKINS_URL", "JENKINS_JOB"} \subseteq env) => Silent(p.jenkins)
        /\ "DOCKERHUB_REPO" \notin env => Silent(p.dockerhub)
        /\ p.kubernetes.contacted
        /\ "K8S_DEPLOYMENT" \notin env => p.kubernetes.target = "user-service"
        /\ \A n \in {"up", "req_rate", "errs"} :
              /\ p[n].contacted
              /\ "PROMETHEUS_URL" \notin env => p[n].target = "http://localhost:9090"
        /\ \A n \in ProbeNames : ~p[n].raised

\* nothing is configured: the three gated probes stay silent while kubectl
\* and the metrics backend are asked at their defaults and answer
C10_Witness ==
    \E t \in Overviews :
        LET p == run[t].probes IN
        /\ env = {}
        /\ Silent(p.github) /\ Silent(p.jenkins) /\ Silent(p.dockerhub)
        /\ p.kubernetes.res # <<>> /\ p.kubernetes.res[1].status = "success"
        /\ p.up.res = <<2>>
        /\ run[t].resp.stages[5].status = "success"
        /\ run[t].resp.stages[6].status = "success"

\* direct calls of the two CI trigger helpers that are over
GithubCalls == {t \in Active : run[t].req = "call trigger_github_workflow" /\ run[t].ret # <<>>}
JenkinsCalls == {t \in Active : run[t].req = "call trigger_jenkins_job" /\ run[t].ret # <<>>}

\* C11: neither helper raises; without GITHUB_TOKEN (resp. without JENKINS_URL
\* or JENKINS_JOB) the helper returns a falsy flag with its "not configured"
\* message and sends no request; with the configuration present the flag is
\* True exactly when the POST is answered 204 (GitHub) or 201/200 (Jenkins),
\* and a request exception gives the flag False.
C11_TriggerHelpersGatedAndTotal ==
    /\ \A t \in GithubCalls :
          LET c == run[t].ret[1] IN
          /\ ~run[t].exc
          /\ c.flag \in {PyTrue, PyFalse, None}
          /\ "GITHUB_TOKEN" \notin env
                => /\ ~FlagTrue(c.flag) /\ c.msg = "GitHub token not configured"
                   /\ ~c.sent /\ run[t].http = <<>>
          /\ "GITHUB_TOKEN" \in env
                => /\ FlagTrue(c.flag) <=> (c.sent /\ c.post = "204")
                   /\ c.post = "exception" => c.flag = PyFalse
    /\ \A t \in JenkinsCalls :
          LET c == run[t].ret[1] IN
          /\ ~run[t].exc
          /\ c.flag \in {PyTrue, PyFalse, None}
          /\ ~({"JENKINS_URL", "JENKINS_JOB"} \subseteq env)
                => /\ ~FlagTrue(c.flag) /\ c.msg = "Jenkins URL/job not configured"
                   /\ ~c.sent /\ run[t].http = <<>>
          /\ {"JENKINS_URL", "JENKINS_JOB"} \subseteq env
                => /\ FlagTrue(c.flag) <=> (c.sent /\ c.post \in {"201", "200"})
                   /\ c.post = "exception" => c.flag = PyFalse

\* a configured Jenkins trigger answered 200 returned True
C11_Witness ==
    \E t \in JenkinsCalls :
        /\ {"JENKINS_URL", "JENKINS_JOB"} \subseteq env
        /\ run[t].ret[1].post = "200" /\ run[t].ret[1].flag = PyTrue

\* a trigger() run that holds a workspace and has not ended
Live(r) == r.req = "call trigger" /\ r.tmp # 0 /\ r.pc # "done"

LiveRuns == {t \in Threads : Live(run[t])}

\* no two live runs share a workspace, and a live run's workspace exists
C12_WorkspacesDistinct ==
    /\ \A t, u \in LiveRuns : t # u => run[t].tmp # run[u].tmp
    /\ \A t \in LiveRuns : run[t].tmp \in fs

\* a step that changes a run's stage list is a step of that run alone, and
\* the workspace of a run that is executing goes away only in that run's
\* own finally clause
C12_OwnStep ==
    \A t \in Threads :
        /\ run'[t].stages # run[t].stages
              => /\ run'[t].pc # run[t].pc
                 /\ \A u \in Threads \ {t} : run'[u] = run[u]
        /\ (Live(run[t]) /\ run[t].tmp \in fs /\ run[t].tmp \notin fs')
              => /\ run[t].pc = "finally" /\ run'[t].pc = "done"
                 /\ \A u \in Threads \ {t} : run'[u] = run[u]

\* C12: under every interleaving of concurrent trigger runs, live runs have
\* pairwise different workspaces that exist, a run's stage list changes only
\* in that run's own steps, and no run's cleanup removes the workspace of
\* another run that is still executing.
C12_ConcurrentRunsIsolated == []C12_WorkspacesDistinct /\ [][C12_OwnStep]_vars

\* two runs at once: the first has cleaned up and ended while the second,
\* in another workspace that still exists, is about to deploy
C12_Witness ==
    \E t, u \in Threads :
        /\ t # u
        /\ run[t].req = "call trigger" /\ Ended(t) /\ run[t].rmtree = "removed"
        /\ run[t].tmp \notin fs
        /\ Live(run[u]) /\ run[u].pc = "deploy" /\ run[u].tmp \in fs
        /\ run[u].tmp # run[t].tmp

\* C13: every blocking step of a run is bounded by a timeout, so no run is
\* ever left waiting, without end, inside an HTTP call or for a child
\* process that never answers: every run can go on to its response.
C13_NoRunWaitsForever ==
    \A t \in Runs : run[t].pc # "hung"

\* runs whose HEAD check has been sent
Checked == {t \in Runs : run[t].head # "not sent"}

\* C14 (as stated): whatever the HEAD check returns or raises, the run goes
\* on and the clone command is attempted.
C14_HeadCheckNeverEndsRun ==
    \A t \in Checked :
        run[t].head \in {"200", "404", "exception"} => "git clone" \in SpawnedCmds(t)

\* C14 (amended): a HEAD check that raises, or is answered with anything
\* but 404, does not end the run and the clone command is attempted; a 404
\* answer ends the run with the Clone stage failed ("not found on GitHub"),
\* answered 200, without any clone; a HEAD check that is never answered
\* leaves the run waiting before the clone.
C14_Only404EndsRun ==
    \A t \in Checked :
        /\ run[t].head \in {"200", "exception"}
              => /\ Len(run[t].spawned) >= 1
                 /\ run[t].spawned[1].cmd = "git clone"
        /\ run[t].head = "404"
              => /\ run[t].pc \in {"finally", "done"}
                 /\ run[t].spawned = <<>>
                 /\ Len(run[t].stages) = 1
                 /\ run[t].stages[1].name = "Clone Repository"
                 /\ run[t].stages[1].status = "failed"
                 /\ run[t].stages[1].detail = "Repository not found on GitHub"
                 /\ run[t].resp.code = 200
                 /\ run[t].resp.stages = run[t].stages
        /\ run[t].head = "hang"
              => run[t].pc = "hung" /\ run[t].spawned = <<>>

\* the HEAD check raised, the clone ran all the same and the run went on
\* to deploy
C14_Witness ==
    \E t \in Checked :
        /\ Ended(t) /\ run[t].head = "exception"
        /\ "git clone" \in SpawnedCmds(t)
        /\ Len(run[t].resp.stages) = 5

\* C15: in every overview response the inferred Docker Build & Unit Tests
\* stage (id 3) agrees with the displayed CI stage (id 2): it is success
\* only if stage 2 is success, and in_progress only if stage 2 is in_progress.
C15_BuildStageFollowsCIStage ==
    \A t \in Overviews :
        LET st == run[t].resp.stages IN
        /\ st[2].id = "2" /\ st[3].id = "3"
        /\ st[3].status = "success" => st[2].status = "success"
        /\ st[3].status = "in_progress" => st[2].status = "in_progress"

====
